---------------------------- MODULE Spec2Model ----------------------------
(***************************************************************************)
(* bw-snake: the tick simulation of src/main.rs (duplicated verbatim in    *)
(* src/game/plugin.rs and src/game/components.rs).                         *)
(*                                                                         *)
(* The world is the ECS world the systems of main() act on: the snake      *)
(* entity (Pos, SnakeMeta), the SnakeBody entities (Pos, Age), the Food    *)
(* entities (Pos) and the wall tiles.  Every system is one action.  A      *)
(* system's Commands are deferred: they are queued in cmds and applied     *)
(* when the stage's buffers are applied.                                   *)
(*                                                                         *)
(* One frame of the schedule built by main():                              *)
(*   Update     control_snake, then the FixedTimestep(0.2) set             *)
(*              move_snake -> eat_food -> despawn_old, buffers applied,    *)
(*              the run criteria checked again (the set runs once for      *)
(*              every 0.2 s the frame has to catch up with);               *)
(*   POST_SNAKE respawn_food and check_snake_collides in either order,     *)
(*              buffers applied;                                           *)
(*   POST_ALL   update_position (rendering only, not modelled).            *)
(*                                                                         *)
(* u32 values are written as the TLC integer with the same 32-bit pattern: *)
(* a value v >= 2^31 is written v - 2^32, so u32::MAX is -1 and wrapping   *)
(* +1 / -1 are plain +1 / -1.                                              *)
(***************************************************************************)
EXTENDS Integers, Sequences, FiniteSets, TLC

VARIABLES
    head,            \* Pos of the Snake entity
    len,             \* SnakeMeta.len
    dir,             \* SnakeMeta.dir
    prev_dir,        \* SnakeMeta.prev_dir
    body,            \* the SnakeBody entities, in spawn order: [pos, age]
    food,            \* the Food entities, in spawn order: Pos
    cmds,            \* Commands queued in the running stage
    pc,              \* the scheduler's position in the frame
    ran,             \* the POST_SNAKE systems that have run in this frame
    pos_changed,     \* Changed<Pos> of the snake, as check_snake_collides sees it
    failed,          \* "failed" lines printed by check_snake_collides in this frame
    panicked,        \* the process died of an arithmetic-overflow panic
    overflow_checks, \* the build profile: TRUE panics on overflow (debug), FALSE wraps
                     \* (release); "open" until the first overflow shows which it is
    first_frame,     \* the first frame: Time's delta is 0, the timestep cannot fire
    ticks,           \* history: completed runs of move_snake
    req,             \* history: the last direction request since the last move, and
                     \* the last one that was not opposite(prev_dir)
    reported,        \* history: the kinds of collision check_snake_collides has
                     \* printed so far ("wall", "body")
    attempt,         \* history: the random draws respawn_food made in this frame
                     \* and whether it went on to the scan
    tick             \* history of the last tick: the head and prev_dir it started
                     \* from, len, body count and food at its start, the colliders
                     \* at the head when it ended (hit), whether check_snake_collides
                     \* has run since (checked), whether it ran in this frame (moved)

vars == <<head, len, dir, prev_dir, body, food, cmds, pc, ran, pos_changed,
          failed, panicked, overflow_checks, first_frame, ticks, req, reported,
          attempt, tick>>

---------------------------------------------------------------------------
(* Bounds of the model.                                                    *)

\* move_snake runs at most MaxTicks times
MaxTicks == 6

\* request sequences of up to MaxReqs requests are compared
MaxReqs == 2

---------------------------------------------------------------------------
(* Data.                                                                   *)

Direction == {"Up", "Down", "Left", "Right"}

P(x, y) == [x |-> x, y |-> y]

\* u32::MAX in the 32-bit pattern notation
U32_MAX == -1

\* (variant) a quarter turn instead of the reverse
oppositeQuarterTurn(d) ==
    CASE d = "Up"    -> "Right"
      [] d = "Right" -> "Down"
      [] d = "Down"  -> "Left"
      [] d = "Left"  -> "Up"

opposite(d) ==
    CASE d = "Up"    -> "Down"
      [] d = "Down"  -> "Up"
      [] d = "Right" -> "Left"
      [] d = "Left"  -> "Right"

\* create_basic_scene
scene_size == 10
x_size == 10
y_size == 10

InGrid(p) == p.x >= 0 /\ p.x < x_size /\ p.y >= 0 /\ p.y < y_size

GridPos == {P(i, j) : i \in 0 .. x_size - 1, j \in 0 .. y_size - 1}

IsWall(i, j) == i = 0 \/ j = 0 \/ i = scene_size - 1 \/ j = scene_size - 1

\* the tiles that carry Collision (TileType::Wall); Floor tiles carry none
Walls == {p \in {P(i, j) : i \in 0 .. scene_size - 1, j \in 0 .. scene_size - 1} :
            IsWall(p.x, p.y)}

Range(s) == {s[i] : i \in 1 .. Len(s)}

BodyPos == {body[i].pos : i \in 1 .. Len(body)}

\* Query<&Pos, With<Collision>>: the head, the body segments, the wall tiles
CollisionPos == {head} \cup BodyPos \cup Walls

\* Query<(Entity, &Pos), With<Collision>> without the snake itself: the number of
\* entities at coordinate h
Colliders(h) ==
    (IF h \in Walls THEN 1 ELSE 0) +
    Cardinality({i \in 1 .. Len(body) : body[i].pos = h})

\* a queued command: spawn_body / spawn_food at pos, despawn_body / despawn_food
\* of the entity at index ent of body / food
Cmd(op, pos, ent) == [op |-> op, pos |-> pos, ent |-> ent]

---------------------------------------------------------------------------
(* Startup: create_basic_scene, spawn_snake.                               *)

start_x == 5
start_y == 5
start_len == 4

\* respawn_food has not drawn in this frame
NoAttempt == [draws |-> 0, scanned |-> FALSE]

Init ==
    /\ head = P(start_x, start_y)
    /\ len = start_len
    /\ dir = "Right"
    /\ prev_dir = "Right"
    /\ body = <<>>
    /\ food = <<>>
    /\ cmds = <<>>
    /\ pc = "control_snake"
    /\ ran = {}
    /\ pos_changed = TRUE
    /\ failed = 0
    /\ panicked = FALSE
    /\ overflow_checks = "open"
    /\ first_frame = TRUE
    /\ ticks = 0
    /\ req = [last |-> "None", acc |-> "None"]
    /\ reported = {}
    /\ attempt = NoAttempt
    /\ tick = [old_pos |-> P(start_x, start_y), from_dir |-> "Right",
               len0 |-> start_len, nbody0 |-> 0, food0 |-> <<>>,
               hit |-> 0, checked |-> TRUE, moved |-> FALSE]

---------------------------------------------------------------------------
(* control_snake: every frame, before move_snake.                          *)

\* what inputs.get_just_released().next() can yield
JustReleased == {"Up", "W", "Down", "S", "Left", "A", "Right", "D", "Escape", "None"}

TmpDir(key, d) ==
    CASE key \in {"Up", "W"}    -> "Up"
      [] key \in {"Down", "S"}  -> "Down"
      [] key \in {"Left", "A"}  -> "Left"
      [] key \in {"Right", "D"} -> "Right"
      [] OTHER                  -> d

Accepts(tmp_dir, prev) == tmp_dir # opposite(prev)

\* a direction request reaches control_snake: a direction key was just released
IsRequest(changed, key) == changed /\ key \notin {"Escape", "None"}

\* (variant) the reversal test reads the queued dir instead of prev_dir
NewDirAgainstDir(changed, key, d, prev) ==
    IF changed /\ TmpDir(key, d) # opposite(d) THEN TmpDir(key, d) ELSE d

\* (variant) once a request has been taken, later ones wait for the next move
NewDirFirstWins(changed, key, d, prev) ==
    IF changed /\ Accepts(TmpDir(key, d), prev) /\ d = prev THEN TmpDir(key, d) ELSE d

\* (variant) every request is taken
NewDirUnchecked(changed, key, d, prev) ==
    IF changed THEN TmpDir(key, d) ELSE d

NewDir(changed, key, d, prev) ==
    IF changed /\ Accepts(TmpDir(key, d), prev) THEN TmpDir(key, d) ELSE d

ControlSnake ==
    /\ pc = "control_snake"
    /\ \E changed \in BOOLEAN, key \in JustReleased :
          /\ dir' = NewDir(changed, key, dir, prev_dir)
          /\ req' = IF IsRequest(changed, key)
                    THEN [last |-> TmpDir(key, dir),
                          acc  |-> IF TmpDir(key, dir) # opposite(prev_dir)
                                   THEN TmpDir(key, dir) ELSE req.acc]
                    ELSE req
    /\ pc' = "timestep"
    /\ failed' = 0
    /\ tick' = [tick EXCEPT !.moved = FALSE]
    /\ UNCHANGED <<head, len, prev_dir, body, food, cmds, ran, pos_changed,
                   panicked, overflow_checks, first_frame, ticks, reported,
                   attempt>>

---------------------------------------------------------------------------
(* FixedTimestep::step(0.2): the run criteria of the set move_snake,       *)
(* eat_food, despawn_old.  It is evaluated at the start of Update and      *)
(* again after each run of the set.                                        *)

TimestepFires ==
    /\ pc \in {"timestep", "timestep_again"}
    /\ ~first_frame
    /\ ticks < MaxTicks
    /\ pc' = "move_snake"
    /\ UNCHANGED <<head, len, dir, prev_dir, body, food, cmds, ran, pos_changed,
                   failed, panicked, overflow_checks, first_frame, ticks, req,
                   reported, tick, attempt>>

TimestepIdle ==
    /\ pc \in {"timestep", "timestep_again"}
    /\ pc' = "post_snake"
    /\ UNCHANGED <<head, len, dir, prev_dir, body, food, cmds, ran, pos_changed,
                   failed, panicked, overflow_checks, first_frame, ticks, req,
                   reported, tick, attempt>>

---------------------------------------------------------------------------
(* move_snake                                                              *)

Step(p, d) ==
    CASE d = "Up"    -> [p EXCEPT !.y = @ + 1]
      [] d = "Down"  -> [p EXCEPT !.y = @ - 1]
      [] d = "Left"  -> [p EXCEPT !.x = @ - 1]
      [] d = "Right" -> [p EXCEPT !.x = @ + 1]

\* the u32 operation of Step(p, d) overflows
Overflows(p, d) ==
    \/ d = "Up"    /\ p.y = U32_MAX
    \/ d = "Down"  /\ p.y = 0
    \/ d = "Left"  /\ p.x = 0
    \/ d = "Right" /\ p.x = U32_MAX

\* (variant) the segment is spawned at the head's new coordinate
SpawnPosNew(old_pos, new_pos) == new_pos

\* spawn_snake_body(commands, asset_server, &old_pos)
SpawnPos(old_pos, new_pos) == old_pos

MoveSnake ==
    /\ pc = "move_snake"
    /\ \E checks \in IF Overflows(head, dir) /\ overflow_checks = "open"
                      THEN BOOLEAN ELSE {overflow_checks} :
        /\ overflow_checks' = checks
        /\ IF Overflows(head, dir) /\ checks = TRUE
           THEN /\ panicked' = TRUE
                /\ pc' = "aborted"
                /\ UNCHANGED <<head, prev_dir, cmds, pos_changed, ticks, req, tick>>
           ELSE /\ head' = Step(head, dir)
                /\ prev_dir' = dir
                /\ cmds' = Append(cmds, Cmd("spawn_body", SpawnPos(head, Step(head, dir)), 0))
                /\ pos_changed' = TRUE
                /\ ticks' = ticks + 1
                /\ req' = [last |-> "None", acc |-> "None"]
                /\ tick' = [old_pos |-> head, from_dir |-> prev_dir,
                            len0 |-> len, nbody0 |-> Len(body), food0 |-> food,
                            hit |-> 0, checked |-> FALSE, moved |-> TRUE]
                /\ pc' = "eat_food"
                /\ UNCHANGED panicked
    /\ UNCHANGED <<len, dir, body, food, ran, failed, first_frame, reported,
                   attempt>>

---------------------------------------------------------------------------
(* eat_food                                                                *)

\* (variant) eating grows the snake by 2
GrownByTwo(l) == l + 2

Grown(l) == l + 1

EatFood ==
    /\ pc = "eat_food"
    /\ LET hits == {i \in 1 .. Len(food) : food[i] = head} IN
       IF hits # {}
       THEN \E i \in hits :
              /\ cmds' = Append(cmds, Cmd("despawn_food", food[i], i))
              /\ len' = Grown(len)
       ELSE UNCHANGED <<cmds, len>>
    /\ pc' = "despawn_old"
    /\ UNCHANGED <<head, dir, prev_dir, body, food, ran, pos_changed, failed,
                   panicked, overflow_checks, first_frame, ticks, req, reported,
                   tick, attempt>>

---------------------------------------------------------------------------
(* despawn_old                                                             *)

\* (variant) the age is compared without the + 1
ExpiredOffByOne(age, l) == age = l

Expired(age, l) == age + 1 = l

\* (variant) a tick ages a segment by 2
AgedByTwo(b) == [i \in 1 .. Len(b) |-> [b[i] EXCEPT !.age = @ + 2]]

Aged(b) == [i \in 1 .. Len(b) |-> [b[i] EXCEPT !.age = @ + 1]]

RECURSIVE DespawnCmds(_, _, _)
DespawnCmds(b, l, i) ==
    IF i > Len(b) THEN <<>>
    ELSE (IF Expired(b[i].age, l) THEN <<Cmd("despawn_body", b[i].pos, i)>> ELSE <<>>)
         \o DespawnCmds(b, l, i + 1)

\* (variant) despawn_old reads the len of before eat_food
PrunedAgainstStale == tick.len0

\* despawn_old.after(eat_food): the len it reads is the one eat_food has grown
PrunedAgainst == len

DespawnOld ==
    /\ pc = "despawn_old"
    /\ body' = Aged(body)
    /\ cmds' = cmds \o DespawnCmds(Aged(body), PrunedAgainst, 1)
    /\ pc' = "apply_update"
    /\ UNCHANGED <<head, len, dir, prev_dir, food, ran, pos_changed, failed,
                   panicked, overflow_checks, first_frame, ticks, req, reported,
                   tick, attempt>>

---------------------------------------------------------------------------
(* Applying a stage's command buffers.                                     *)

Dead(cs, op) == {cs[i].ent : i \in {k \in 1 .. Len(cs) : cs[k].op = op}}

RECURSIVE Keep(_, _, _)
Keep(s, dead, i) ==
    IF i > Len(s) THEN <<>>
    ELSE (IF i \in dead THEN <<>> ELSE <<s[i]>>) \o Keep(s, dead, i + 1)

RECURSIVE SpawnedBody(_, _)
SpawnedBody(cs, i) ==
    IF i > Len(cs) THEN <<>>
    ELSE (IF cs[i].op = "spawn_body" THEN <<[pos |-> cs[i].pos, age |-> 0]>> ELSE <<>>)
         \o SpawnedBody(cs, i + 1)

RECURSIVE SpawnedFood(_, _)
SpawnedFood(cs, i) ==
    IF i > Len(cs) THEN <<>>
    ELSE (IF cs[i].op = "spawn_food" THEN <<cs[i].pos>> ELSE <<>>)
         \o SpawnedFood(cs, i + 1)

AppliedBody(b, cs) == Keep(b, Dead(cs, "despawn_body"), 1) \o SpawnedBody(cs, 1)

AppliedFood(f, cs) == Keep(f, Dead(cs, "despawn_food"), 1) \o SpawnedFood(cs, 1)

ApplyUpdateBuffers ==
    /\ pc = "apply_update"
    /\ body' = AppliedBody(body, cmds)
    /\ food' = AppliedFood(food, cmds)
    /\ cmds' = <<>>
    /\ tick' = [tick EXCEPT !.hit = (IF head \in Walls THEN 1 ELSE 0) +
                   Cardinality({i \in 1 .. Len(body') : body'[i].pos = head})]
    /\ pc' = "timestep_again"
    /\ UNCHANGED <<head, len, dir, prev_dir, ran, pos_changed, failed, panicked,
                   overflow_checks, first_frame, ticks, req, reported,
                   attempt>>

---------------------------------------------------------------------------
(* respawn_food                                                            *)

num_attempts == 100

\* the array [0..num_attempts] the random loop iterates over: one element, a Range
AttemptArray == <<[start |-> 0, end |-> num_attempts]>>

\* the coordinates rng.gen_range is let to draw
DrawChoices == {P(6, 5), P(5, 6), P(0, 0), P(1, 1), P(2, 1)}

\* (variant) the draw is taken without the occupancy test
RandomPhaseUnchecked(occupied_pos, draws, i) == <<Cmd("spawn_food", draws[1], 0)>>

\* the random loop: one draw per element of the array, stopping at the first
\* unoccupied draw
RECURSIVE RandomPhase(_, _, _)
RandomPhase(occupied_pos, draws, i) ==
    IF i > Len(AttemptArray) THEN <<>>
    ELSE IF draws[i] \notin occupied_pos
         THEN <<Cmd("spawn_food", draws[i], 0)>>
         ELSE RandomPhase(occupied_pos, draws, i + 1)

\* (variant) the scan takes its first coordinate without the occupancy test
ScanPhaseUnchecked(occupied_pos) == <<Cmd("spawn_food", P(0, 0), 0)>>

\* (variant) the loops are nested the other way: for y { for x { ... } }
ScanPhaseRowByRow(occupied_pos) ==
    LET free == GridPos \ occupied_pos IN
    IF free = {} THEN <<>>
    ELSE LET p == CHOOSE p \in free :
                    \A q \in free : p.y < q.y \/ (p.y = q.y /\ p.x <= q.x)
         IN <<Cmd("spawn_food", p, 0)>>

\* 'outer: for x in 0..x_size { for y in 0..y_size { ... break 'outer } }
ScanPhase(occupied_pos) ==
    LET free == GridPos \ occupied_pos IN
    IF free = {} THEN <<>>
    ELSE LET p == CHOOSE p \in free :
                    \A q \in free : p.x < q.x \/ (p.x = q.x /\ p.y <= q.y)
         IN <<Cmd("spawn_food", p, 0)>>

\* (variant) no early return while food exists
RespawnCmdsIgnoringFood(fd, occupied_pos, draws) ==
    IF Cardinality(occupied_pos) = x_size * y_size THEN <<>>
    ELSE LET random == RandomPhase(occupied_pos, draws, 1)
             food_spawned == random # <<>>
         IN random \o (IF ~food_spawned THEN ScanPhase(occupied_pos) ELSE <<>>)

\* (variant) respawn_food spawns nothing in a frame that has reported a
\* collision
RespawnCmdsUnlessFailed(fd, occupied_pos, draws) ==
    IF fd # <<>> \/ failed > 0 THEN <<>>
    ELSE IF Cardinality(occupied_pos) = x_size * y_size THEN <<>>
    ELSE LET random == RandomPhase(occupied_pos, draws, 1)
             food_spawned == random # <<>>
         IN random \o (IF ~food_spawned THEN ScanPhase(occupied_pos) ELSE <<>>)

RespawnCmds(fd, occupied_pos, draws) ==
    IF fd # <<>> THEN <<>>
    ELSE IF Cardinality(occupied_pos) = x_size * y_size THEN <<>>
    ELSE LET random == RandomPhase(occupied_pos, draws, 1)
             food_spawned == random # <<>>
         IN random \o (IF ~food_spawned THEN ScanPhase(occupied_pos) ELSE <<>>)

\* the draws the random loop makes before it breaks or ends
RECURSIVE DrawsMade(_, _, _)
DrawsMade(occupied_pos, draws, i) ==
    IF i > Len(AttemptArray) THEN 0
    ELSE IF draws[i] \notin occupied_pos THEN 1
         ELSE 1 + DrawsMade(occupied_pos, draws, i + 1)

\* what one run of respawn_food drew, and whether `if !food_spawned` was entered
Attempt(fd, occupied_pos, draws) ==
    IF fd # <<>> \/ Cardinality(occupied_pos) = x_size * y_size THEN NoAttempt
    ELSE [draws   |-> DrawsMade(occupied_pos, draws, 1),
          scanned |-> RandomPhase(occupied_pos, draws, 1) = <<>>]

RespawnFood ==
    /\ pc = "post_snake"
    /\ "respawn_food" \notin ran
    /\ \E draws \in [1 .. Len(AttemptArray) -> DrawChoices] :
          /\ cmds' = cmds \o RespawnCmds(food, CollisionPos, draws)
          /\ attempt' = Attempt(food, CollisionPos, draws)
    /\ ran' = ran \cup {"respawn_food"}
    /\ UNCHANGED <<head, len, dir, prev_dir, body, food, pc, pos_changed, failed,
                   panicked, overflow_checks, first_frame, ticks, req, reported,
                   tick>>

---------------------------------------------------------------------------
(* check_snake_collides                                                    *)

Reported(changed, h) == IF changed THEN Colliders(h) ELSE 0

\* the kinds of entity the printed lines are about
ReportedKinds(changed, h) ==
    IF changed
    THEN (IF h \in Walls THEN {"wall"} ELSE {}) \cup
         (IF h \in BodyPos THEN {"body"} ELSE {})
    ELSE {}

\* (variant) a reported collision ends the game
CheckSnakeCollidesFatal ==
    /\ pc = "post_snake"
    /\ "check_snake_collides" \notin ran
    /\ failed' = Reported(pos_changed, head)
    /\ reported' = reported \cup ReportedKinds(pos_changed, head)
    /\ pos_changed' = FALSE
    /\ tick' = [tick EXCEPT !.checked = TRUE]
    /\ ran' = ran \cup {"check_snake_collides"}
    /\ pc' = IF Reported(pos_changed, head) > 0 THEN "aborted" ELSE pc
    /\ UNCHANGED <<head, len, dir, prev_dir, body, food, cmds, panicked,
                   overflow_checks, first_frame, ticks, req, attempt>>

CheckSnakeCollides ==
    /\ pc = "post_snake"
    /\ "check_snake_collides" \notin ran
    /\ failed' = Reported(pos_changed, head)
    /\ reported' = reported \cup ReportedKinds(pos_changed, head)
    /\ pos_changed' = FALSE
    /\ tick' = [tick EXCEPT !.checked = TRUE]
    /\ ran' = ran \cup {"check_snake_collides"}
    /\ UNCHANGED <<head, len, dir, prev_dir, body, food, cmds, pc, panicked,
                   overflow_checks, first_frame, ticks, req, attempt>>

ApplyPostSnakeBuffers ==
    /\ pc = "post_snake"
    /\ ran = {"respawn_food", "check_snake_collides"}
    /\ body' = AppliedBody(body, cmds)
    /\ food' = AppliedFood(food, cmds)
    /\ cmds' = <<>>
    /\ first_frame' = FALSE
    /\ ran' = {}
    /\ attempt' = NoAttempt
    /\ pc' = "control_snake"
    /\ UNCHANGED <<head, len, dir, prev_dir, pos_changed, failed, panicked,
                   overflow_checks, ticks, req, reported, tick>>

---------------------------------------------------------------------------

Next ==
    \/ ControlSnake
    \/ TimestepFires
    \/ TimestepIdle
    \/ MoveSnake
    \/ EatFood
    \/ DespawnOld
    \/ ApplyUpdateBuffers
    \/ RespawnFood
    \/ CheckSnakeCollides
    \/ ApplyPostSnakeBuffers

Spec == Init /\ [][Next]_vars

---------------------------------------------------------------------------
(* Late-game worlds, for the claims about respawn_food on a grid that is   *)
(* full or nearly full.  The snake has just moved onto the food at the     *)
(* top-left interior tile and eaten it (the Update stage is over, its      *)
(* buffers applied); its trail covers the interior in rows, leaving the    *)
(* last free tiles at the bottom.  In the detour worlds the snake had left *)
(* the grid through the top wall and come back in just before.             *)

\* at most MaxFree interior tiles are left free
MaxFree == 4

Interior == (x_size - 2) * (y_size - 2)

\* the n-th interior tile of the trail, n = 0 the head: rows from the top,
\* alternately left-to-right and right-to-left
Cell(n) ==
    LET w == x_size - 2
        r == n \div w
        c == n % w
    IN P(IF r % 2 = 0 THEN 1 + c ELSE w - c, y_size - 2 - r)

Detour == <<P(1, y_size - 1), P(1, y_size), P(2, y_size), P(2, y_size - 1)>>

\* the coordinates of the snake, head first
Trail(nfree, detour) ==
    <<Cell(0)>> \o (IF detour THEN Detour ELSE <<>>) \o
    [n \in 1 .. Interior - 1 - nfree |-> Cell(n)]

\* the body segments of a trail in spawn order: the oldest first, the neck last
TrailBody(t) ==
    [i \in 1 .. Len(t) - 1 |-> [pos |-> t[Len(t) + 1 - i], age |-> Len(t) - 1 - i]]

InitFood ==
    \E nfree \in 0 .. MaxFree, detour \in BOOLEAN :
      LET t == Trail(nfree, detour)
          d == IF detour THEN "Down" ELSE "Left"
      IN
        /\ head = t[1]
        /\ len = Len(t)
        /\ dir = d
        /\ prev_dir = d
        /\ body = TrailBody(t)
        /\ food = <<>>
        /\ cmds = <<>>
        /\ pc = "post_snake"
        /\ ran = {}
        /\ pos_changed = TRUE
        /\ failed = 0
        /\ panicked = FALSE
        /\ overflow_checks = "open"
        /\ first_frame = FALSE
        /\ ticks = Len(t) - 1
        /\ req = [last |-> "None", acc |-> "None"]
        /\ reported = {}
        /\ attempt = NoAttempt
        /\ tick = [old_pos |-> t[2], from_dir |-> d,
                   len0 |-> Len(t) - 1, nbody0 |-> Len(t) - 2, food0 |-> <<t[1]>>,
                   hit |-> 0, checked |-> FALSE, moved |-> TRUE]

NextFood ==
    \/ ControlSnake
    \/ TimestepIdle
    \/ RespawnFood
    \/ CheckSnakeCollides
    \/ ApplyPostSnakeBuffers

SpecFood == InitFood /\ [][NextFood]_vars

---------------------------------------------------------------------------
(* First-meal worlds, for the claims about the scan of respawn_food.  The  *)
(* first food was spawned near the bottom-left corner; the snake of len 4  *)
(* has walked to it from (5,5) along one of ScanPaths without eating       *)
(* anything else, and the last tick of the walk has moved the head onto    *)
(* the food and eaten it (the Update stage is over, its buffers applied).  *)

ScanPaths ==
    { <<"Down", "Down", "Down", "Down", "Left", "Left", "Left", "Left">>,
      <<"Left", "Left", "Left", "Left", "Down", "Down", "Down", "Down">>,
      <<"Left", "Left", "Left", "Down", "Down", "Down", "Down">>,
      <<"Right", "Down", "Down", "Down", "Down", "Left", "Left", "Left", "Left">> }

\* the coordinates of the head from startup on, one per move of path
RECURSIVE Walk(_, _, _)
Walk(p, path, i) ==
    IF i > Len(path) THEN <<p>>
    ELSE <<p>> \o Walk(Step(p, path[i]), path, i + 1)

\* the head and the start_len segments behind it after the walk, head first
WalkTrail(path) ==
    LET w == Walk(P(start_x, start_y), path, 1)
    IN [i \in 1 .. start_len + 1 |-> w[Len(w) + 1 - i]]

InitScan ==
    \E path \in ScanPaths :
      LET t == WalkTrail(path)
          d == path[Len(path)]
      IN
        /\ head = t[1]
        /\ len = start_len + 1
        /\ dir = d
        /\ prev_dir = d
        /\ body = TrailBody(t)
        /\ food = <<>>
        /\ cmds = <<>>
        /\ pc = "post_snake"
        /\ ran = {}
        /\ pos_changed = TRUE
        /\ failed = 0
        /\ panicked = FALSE
        /\ overflow_checks = "open"
        /\ first_frame = FALSE
        /\ ticks = Len(path)
        /\ req = [last |-> "None", acc |-> "None"]
        /\ reported = {}
        /\ attempt = NoAttempt
        /\ tick = [old_pos |-> t[2], from_dir |-> path[Len(path) - 1],
                   len0 |-> start_len, nbody0 |-> start_len - 1, food0 |-> <<t[1]>>,
                   hit |-> 0, checked |-> FALSE, moved |-> TRUE]

SpecScan == InitScan /\ [][NextFood]_vars

---------------------------------------------------------------------------
(* Properties.                                                             *)

Min(a, b) == IF a < b THEN a ELSE b

\* a tick has just ended: move_snake, eat_food, despawn_old have run and the
\* Update buffers are applied
TickEnd == pc = "timestep_again"

\* no tick is under way
Settled == pc \notin {"eat_food", "despawn_old", "apply_update"}

SpawnFoodCmds == {i \in 1 .. Len(cmds) : cmds[i].op = "spawn_food"}

FreePos == GridPos \ CollisionPos

\* respawn_food has run in this frame's POST_SNAKE stage, buffers not yet applied
RespawnRan == pc = "post_snake" /\ "respawn_food" \in ran

CheckRan == pc = "post_snake" /\ "check_snake_collides" \in ran

(* C1 as stated: after every tick's age-and-prune phase the number of living *)
(* body segments equals len - 1.                                             *)
C1_BodyIsLenMinusOne == TickEnd => Len(body) = len - 1

(* C1 amended: whenever no tick is under way, the number of living body      *)
(* segments equals min(completed ticks, len - 1).                            *)
C1_BodyCount == Settled => Len(body) = Min(ticks, len - 1)

\* a tick that pruned the tail of a snake that has grown
C1_Witness ==
    /\ TickEnd
    /\ len > start_len
    /\ ticks > len - 1
    /\ Len(body) = len - 1
    /\ tick.nbody0 = Len(body)

(* C2: dir is never opposite(prev_dir); two consecutive moves are never in   *)
(* opposite directions; the head never steps back onto the segment that was  *)
(* its neck.                                                                 *)
C2_NoReversal ==
    /\ dir # opposite(prev_dir)
    /\ ticks >= 1 => prev_dir # opposite(tick.from_dir)
    /\ TickEnd => \A i \in 1 .. Len(body) : body[i].age = 1 => body[i].pos # head

\* a request for opposite(prev_dir) was made and left dir alone
C2_Witness ==
    /\ pc = "timestep"
    /\ ticks >= 1
    /\ req.last = opposite(prev_dir)
    /\ req.acc = "None"
    /\ dir = prev_dir

(* C3: the head and every body segment stay inside the grid.                 *)
C3_InGrid ==
    /\ InGrid(head)
    /\ \A i \in 1 .. Len(body) : InGrid(body[i].pos)

(* C4: food is never placed on a coordinate occupied by the head, a body     *)
(* segment or a wall; when every grid coordinate is occupied nothing is      *)
(* spawned and food stays absent.                                            *)
C4_FoodOnFreeOnly ==
    /\ \A i \in SpawnFoodCmds : cmds[i].pos \notin CollisionPos
    /\ \A i \in 1 .. Len(food) : food[i] \notin CollisionPos
    /\ FreePos = {} => SpawnFoodCmds = {} /\ food = <<>>

\* a whole POST_SNAKE stage has run on a full grid
C4_Witness ==
    /\ pc = "control_snake"
    /\ FreePos = {}
    /\ Cardinality(CollisionPos) = x_size * y_size
    /\ food = <<>>

(* C5: at most one food item exists, counting the one respawn_food has       *)
(* queued: none is queued while food exists, at most one per run.            *)
C5_AtMostOneFood == Len(food) + Cardinality(SpawnFoodCmds) <= 1

\* respawn_food has run while food exists and queued nothing
C5_Witness ==
    /\ RespawnRan
    /\ Len(food) = 1
    /\ cmds = <<>>

(* C6: when a tick moves the head onto the food, at the end of that tick the *)
(* food is gone, len has grown by exactly 1, and nothing was pruned: the     *)
(* body count is one more than before, and the segment that the old len      *)
(* would have pruned is alive.                                               *)
C6_EatKeepsTail ==
    (TickEnd /\ head \in Range(tick.food0)) =>
        /\ food = <<>>
        /\ len = tick.len0 + 1
        /\ Len(body) = tick.nbody0 + 1
        /\ tick.nbody0 = tick.len0 - 1 =>
              \E i \in 1 .. Len(body) : body[i].age + 1 = tick.len0

\* a full-length snake has eaten: its tail was due this tick
C6_Witness ==
    /\ TickEnd
    /\ head \in Range(tick.food0)
    /\ tick.nbody0 = tick.len0 - 1

(* C7: check_snake_collides prints exactly when the head moved in this frame *)
(* and another collidable entity is at its coordinate; every tick that ends  *)
(* with the head on another collidable entity is reported before the next    *)
(* tick starts; with no input the first report is at x = 9.                  *)
C7_ReportsEveryCollision ==
    /\ CheckRan => (failed > 0 <=> (tick.moved /\ Colliders(head) > 0))
    /\ pc = "move_snake" => (tick.hit > 0 => tick.checked)
    /\ (CheckRan /\ ticks >= 1 /\ head = P(start_x + ticks, start_y)) =>
          (failed > 0 <=> head.x = x_size - 1)

(* C8: when no food exists and some grid coordinate is free, one run of      *)
(* respawn_food creates food on a free coordinate (the only one, if there is *)
(* only one).                                                                *)
C8_FoodWheneverFree ==
    (RespawnRan /\ food = <<>> /\ FreePos # {}) =>
        /\ Cardinality(SpawnFoodCmds) = 1
        /\ \A i \in SpawnFoodCmds : cmds[i].pos \in FreePos

\* sequences of up to MaxReqs direction requests
ReqSeqs == UNION {[1 .. n -> Direction] : n \in 0 .. MaxReqs}

\* control_snake run once per request of rs, from dir d
RECURSIVE ApplyRequests(_, _, _, _)
ApplyRequests(d, prev, rs, i) ==
    IF i > Len(rs) THEN d
    ELSE ApplyRequests(NewDir(TRUE, rs[i], d, prev), prev, rs, i + 1)

LastOf(rs) == IF rs = <<>> THEN "None" ELSE rs[Len(rs)]

\* the last request of rs that is not opposite(prev)
RECURSIVE LastAccepted(_, _, _)
LastAccepted(rs, prev, i) ==
    IF i = 0 THEN "None"
    ELSE IF rs[i] # opposite(prev) THEN rs[i] ELSE LastAccepted(rs, prev, i - 1)

\* control_snake has run in this frame and move_snake has not run since
Requested == pc \in {"timestep", "move_snake"}

(* C9 as stated: any other request sequence since the last move that ends    *)
(* with the same last request leads to the same dir and the same next move.  *)
C9_LastRequestDecides ==
    Requested => \A rs \in ReqSeqs :
        (rs # <<>> /\ LastOf(rs) = req.last) =>
            /\ ApplyRequests(prev_dir, prev_dir, rs, 1) = dir
            /\ Step(head, ApplyRequests(prev_dir, prev_dir, rs, 1)) = Step(head, dir)

(* C9 amended: any other request sequence since the last move whose last     *)
(* request that is not opposite(prev_dir) is the same (or that has none,     *)
(* like this one) leads to the same dir and the same next move.              *)
C9_LastAcceptedDecides ==
    Requested => \A rs \in ReqSeqs :
        LastAccepted(rs, prev_dir, Len(rs)) = req.acc =>
            /\ ApplyRequests(prev_dir, prev_dir, rs, 1) = dir
            /\ Step(head, ApplyRequests(prev_dir, prev_dir, rs, 1)) = Step(head, dir)

\* about to move after an accepted request followed by a rejected one
C9_Witness ==
    /\ pc = "move_snake"
    /\ req.acc \in Direction
    /\ req.last # req.acc

(* C10: at the end of a tick exactly one body segment has age 0, it is the   *)
(* newest one and it is at the coordinate the head had before the move;      *)
(* after the first tick the body is that one segment, at (5,5).              *)
C10_OneNewSegment ==
    TickEnd =>
        /\ Len(body) >= 1
        /\ body[Len(body)] = [pos |-> tick.old_pos, age |-> 0]
        /\ Cardinality({i \in 1 .. Len(body) : body[i].age = 0}) = 1
        /\ ticks = 1 => body = <<[pos |-> P(5, 5), age |-> 0]>>

\* the end of a tick that turned
C10_Witness ==
    /\ TickEnd
    /\ ticks >= 2
    /\ prev_dir # tick.from_dir
    /\ body[Len(body)].pos = tick.old_pos

\* this step is the run of check_snake_collides
CheckStep == pc = "post_snake" /\ "check_snake_collides" \in ran' \ ran

(* C11: check_snake_collides only observes: its run, whether it reports or   *)
(* not, leaves the head, dir, prev_dir, len, the body segments, the food and *)
(* the queued commands as they are and does not stop the schedule; the move  *)
(* of a later tick is the same step along dir.                               *)
C11_ObservationalOnly ==
    [][/\ CheckStep =>
             /\ UNCHANGED <<head, dir, prev_dir, len, body, food, cmds>>
             /\ UNCHANGED <<pc, panicked, overflow_checks, first_frame, ticks>>
       /\ (pc = "move_snake" /\ reported # {} /\ ~panicked') =>
             /\ head' = Step(head, dir)
             /\ pc' = "eat_food"]_vars

\* a tick has run in a frame after the one that reported a collision
C11_Witness ==
    /\ TickEnd
    /\ reported # {}
    /\ tick.old_pos \in Walls
    /\ head = Step(tick.old_pos, prev_dir)

(* C12: respawn_food draws up to num_attempts (100) random coordinates and   *)
(* takes the first unoccupied one; it goes on to the scan only after         *)
(* num_attempts draws have all been occupied.                                *)
C12_ScanAfterAllAttempts ==
    /\ attempt.draws <= num_attempts
    /\ attempt.scanned => attempt.draws = num_attempts

\* the direction latched for the next move: the last request since the
\* previous move that was taken, or else the direction of the previous move
Latched == IF req.acc \in Direction THEN req.acc ELSE prev_dir

(* C13: a move goes along the most recently accepted request since the       *)
(* previous move, or along the previous move's direction when none was       *)
(* accepted; control_snake only latches: it changes neither the head         *)
(* coordinate nor prev_dir.                                                  *)
C13_LatchedUntilMove ==
    [][/\ pc = "control_snake" => UNCHANGED <<head, prev_dir>>
       /\ pc' = "move_snake" => dir' = Latched'
       /\ (pc = "move_snake" /\ ~panicked') =>
             /\ head' = Step(head, Latched)
             /\ prev_dir' = Latched]_vars

\* a move has just turned the snake: it went along a request
C13_Witness ==
    /\ pc = "eat_food"
    /\ ticks >= 2
    /\ prev_dir # tick.from_dir
    /\ head = Step(tick.old_pos, prev_dir)

(* C14: control_snake changes at most dir: prev_dir, len, the head, the body *)
(* segments and the food (spawned or queued) are as before, and so is dir    *)
(* when the request is opposite(prev_dir); prev_dir is written by move_snake *)
(* only, once per move.                                                      *)
C14_OnlyDirChanges ==
    [][/\ pc = "control_snake" =>
             /\ UNCHANGED <<prev_dir, len, head, body, food, cmds>>
             /\ req'.last = opposite(prev_dir) => dir' = dir
       /\ prev_dir' # prev_dir => pc = "move_snake"
       /\ (pc = "move_snake" /\ ~panicked') =>
             /\ prev_dir' = dir
             /\ ticks' = ticks + 1]_vars

\* a request for opposite(prev_dir) has left a latched turn as it was
C14_Witness ==
    /\ pc = "timestep"
    /\ req.last = opposite(prev_dir)
    /\ req.acc \in Direction
    /\ req.acc # prev_dir
    /\ dir = req.acc

(* C15: each tick moves the head exactly one tile along dir (Up: y+1, Down:  *)
(* y-1, Left: x-1, Right: x+1 as numbers, the other coordinate unchanged),   *)
(* from (5,5) to (6,5) on the first tick without a request; the head changes *)
(* in move_snake only, once per tick.                                        *)
C15_OneTilePerTick ==
    [][/\ pc = "move_snake" =>
             /\ ~Overflows(head, dir)
             /\ head' = Step(head, dir)
             /\ ticks' = ticks + 1
             /\ (ticks = 0 /\ dir = "Right") =>
                    head = P(5, 5) /\ head' = P(6, 5)
       /\ pc # "move_snake" => head' = head /\ ticks' = ticks]_vars

(* C16: the wall ring is hit first: the head is not outside the grid, and no *)
(* decrement of a coordinate equal to 0 is attempted, unless                 *)
(* check_snake_collides has reported a wall collision before.                *)
C16_WallReportedFirst ==
    /\ ~InGrid(head) => "wall" \in reported
    /\ (pc = "move_snake" /\ Overflows(head, dir)) => "wall" \in reported

(* C17: at the end of every tick each living body segment has age + 1 < len, *)
(* and the ages of the living segments are pairwise distinct and are exactly *)
(* 0 .. n-1: no segment has stepped over the test age + 1 = len.             *)
C17_AgesBelowLen ==
    TickEnd =>
        /\ \A i \in 1 .. Len(body) : body[i].age + 1 < len
        /\ \A i, j \in 1 .. Len(body) : i # j => body[i].age # body[j].age
        /\ {body[i].age : i \in 1 .. Len(body)} = 0 .. Len(body) - 1

\* the end of a tick in which a full-length snake has grown: the oldest
\* segment is one tick short of the test
C17_Witness ==
    /\ TickEnd
    /\ len = tick.len0 + 1
    /\ Len(body) = len - 1
    /\ \E i \in 1 .. Len(body) : body[i].age + 2 = len

\* a frame has ended: the POST_SNAKE buffers are applied
FrameEnd == pc = "control_snake"

(* C18: at the end of a frame, and at the end of a tick, the food (when      *)
(* there is food) is on a coordinate other than the head's, any living body  *)
(* segment's and any wall tile's.                                            *)
C18_FoodApart ==
    (FrameEnd \/ TickEnd) =>
        \A i \in 1 .. Len(food) : food[i] \notin CollisionPos

\* the end of a frame in which food was respawned next to a snake that has
\* eaten and moved on
C18_Witness ==
    /\ FrameEnd
    /\ len > start_len
    /\ Len(body) = len - 1
    /\ Len(food) = 1
    /\ food[1] \notin Range(tick.food0)
    /\ food[1] \notin CollisionPos

(* C19: len starts at 4 and never decreases; a tick changes it by at most    *)
(* +1, and changes it exactly when the head, after the move, is on the food; *)
(* control_snake, move_snake, despawn_old, respawn_food and                  *)
(* check_snake_collides leave it alone.                                      *)
C19_LenGrowsOnFoodOnly ==
    [][/\ ticks = 0 => len = 4
       /\ pc = "eat_food" => len' = (IF head \in Range(food) THEN len + 1 ELSE len)
       /\ pc # "eat_food" => len' = len
       /\ pc' = "timestep_again" => len' \in {tick'.len0, tick'.len0 + 1}]_vars

\* eat_food has just run with the head on the food
C19_Witness ==
    /\ pc = "despawn_old"
    /\ head \in Range(food)
    /\ len = tick.len0 + 1
    /\ len > 4

\* this step is the run of respawn_food
RespawnStep == pc = "post_snake" /\ "respawn_food" \in ran' \ ran

\* what check_snake_collides would print if it ran now
WouldReport == Reported(pos_changed, head)

\* the spawns respawn_food could queue if it ran now
WouldSpawn ==
    {RespawnCmds(food, CollisionPos, draws) :
        draws \in [1 .. Len(AttemptArray) -> DrawChoices]}

(* C20: respawn_food and check_snake_collides commute: a run of one changes  *)
(* neither what the other prints or may spawn, nor what the other has        *)
(* printed or queued, nor whether the other has yet to run, so both orders   *)
(* end the stage with the same reports and the same possible food            *)
(* placements.                                                               *)
C20_PostSnakeCommutes ==
    [][/\ RespawnStep =>
             /\ WouldReport' = WouldReport
             /\ UNCHANGED <<failed, reported, pos_changed, pc>>
             /\ ran' \ {"respawn_food"} = ran
       /\ CheckStep =>
             /\ WouldSpawn' = WouldSpawn
             /\ UNCHANGED <<cmds, attempt, pc>>
             /\ ran' \ {"check_snake_collides"} = ran]_vars

\* both systems have run in a frame that reports a collision and respawns
\* the food
C20_Witness ==
    /\ pc = "post_snake"
    /\ ran = {"respawn_food", "check_snake_collides"}
    /\ failed > 0
    /\ SpawnFoodCmds # {}

\* the place of a grid coordinate in the scan that goes row by row (y by y,
\* x running within a row) and in the one that goes column by column
RowMajorIndex(p) == p.y * x_size + p.x

ColumnMajorIndex(p) == p.x * y_size + p.y

\* respawn_food has run in this frame and has gone on to the scan
Scanned == RespawnRan /\ attempt.scanned

(* C21 as stated: when the random phase places no food, the scan places food *)
(* on the first unoccupied grid coordinate in row-major order.               *)
C21_FirstFreeRowMajor ==
    (Scanned /\ FreePos # {}) =>
        /\ Cardinality(SpawnFoodCmds) = 1
        /\ \A i \in SpawnFoodCmds :
              /\ cmds[i].pos \in FreePos
              /\ \A q \in FreePos : RowMajorIndex(cmds[i].pos) <= RowMajorIndex(q)

(* C21 amended: when the random phase places no food, the scan places food   *)
(* on the first unoccupied grid coordinate in the order of the loops, x      *)
(* outside and y inside (column by column): a function of the occupied set.  *)
C21_FirstFreeColumnMajor ==
    (Scanned /\ FreePos # {}) =>
        /\ Cardinality(SpawnFoodCmds) = 1
        /\ \A i \in SpawnFoodCmds :
              /\ cmds[i].pos \in FreePos
              /\ \A q \in FreePos :
                    ColumnMajorIndex(cmds[i].pos) <= ColumnMajorIndex(q)

\* the scan has run with (1,1) occupied: the first free coordinate of
\* column 1 is not the first free coordinate of row 1
C21_Witness ==
    /\ Scanned
    /\ P(1, 1) \in CollisionPos
    /\ \E i \in SpawnFoodCmds :
          /\ cmds[i].pos.x = 1
          /\ \E q \in FreePos : q.y = 1 /\ q.y < cmds[i].pos.y

(* C22: Direction::opposite is total on Up, Down, Left, Right, is its own    *)
(* inverse and has no fixed point: Up <-> Down, Left <-> Right.              *)
C22_OppositeInvolution ==
    /\ \A d \in Direction :
          /\ opposite(d) \in Direction
          /\ opposite(opposite(d)) = d
          /\ opposite(d) # d
    /\ opposite("Up") = "Down" /\ opposite("Down") = "Up"
    /\ opposite("Left") = "Right" /\ opposite("Right") = "Left"
    /\ opposite(opposite(prev_dir)) = prev_dir
    /\ opposite(opposite(dir)) = dir

\* control_snake has tested a request for Up against opposite(Down) after a
\* move Down, and has left dir alone
C22_Witness ==
    /\ pc = "timestep"
    /\ prev_dir = "Down"
    /\ req.last = "Up"
    /\ req.last = opposite(prev_dir)
    /\ dir = "Down"

============================================================================
